---- MODULE Spec2Model ----
(***************************************************************************)
(* Model of the voting_platform program                                    *)
(* (programs/voting-dapp-clean/src/lib.rs).                                *)
(*                                                                         *)
(* The program has two instructions, create_poll and cast_vote.  Each      *)
(* instruction runs as one transaction of the host runtime: the account    *)
(* constraints of its Accounts struct are applied first (the `init`        *)
(* constraint creates the account at the derived address and is refused    *)
(* when that address is already in use), then the handler body runs, and   *)
(* when either fails nothing the transaction did is kept.                  *)
(***************************************************************************)
EXTENDS Integers, Sequences, FiniteSets, Bags, TLC

(***************************************************************************)
(* Program constants.                                                      *)
(***************************************************************************)
MAX_QUESTION_LENGTH == 200
MAX_OPTION_LENGTH == 30
MAX_OPTIONS == 4

(***************************************************************************)
(* Bounds of the model.                                                    *)
(***************************************************************************)
\* the clock runs over 0..MaxTime
MaxTime == 1
\* at most MaxPolls Poll accounts are created in one behaviour
MaxPolls == 2
\* at most MaxVotes VoterRecord accounts are created in one behaviour
MaxVotes == 2
\* at most MaxCalls cast_vote transactions are issued in one behaviour of SpecRace
MaxCalls == 3

(***************************************************************************)
(* Inputs.  Texts are sequences of bytes (String::as_bytes).               *)
(***************************************************************************)
Rep(n, b) == [i \in 1..n |-> b]

Signers == {"A", "B"}
Creators == Signers
PollIds == {1, 2}
Durations == {0, 60}

QPizza == <<80, 105, 122, 122, 97, 63>>
QMax == [i \in 1..MAX_QUESTION_LENGTH |-> 32 + (i % 95)]
QOver == [i \in 1..(MAX_QUESTION_LENGTH + 1) |-> 32 + (i % 95)]
Questions == {QPizza, QMax, QOver}

OYes == <<89, 101, 115>>
ONo == <<78, 111>>
OMax == Rep(MAX_OPTION_LENGTH, 97)
OOver == Rep(MAX_OPTION_LENGTH + 1, 97)
OptionLists ==
    { <<OYes>>,
      <<OYes, ONo>>,
      <<OMax, <<>>, ONo, OYes>>,
      <<OYes, OOver>>,
      <<OYes, ONo, OYes, ONo, OYes>>,
      <<OYes, ONo, OOver, ONo, OYes>> }

\* the inputs of create_poll in Spec: one poll_id, a question of the largest
\* length, and lists of 1, 2 and 4 options
SomePollIds == {1}
SomeQuestions == {QMax}
SomeOptionLists == {<<OYes>>, <<OYes, ONo>>, <<OMax, <<>>, ONo, OYes>>}

\* option_index is a u8; the indexes tried are the four slots and the first
\* index past them
OptionIndexes == {0, 1, 2, 3, 4}

(***************************************************************************)
(* Derived addresses.  find_program_address is modelled as the injective   *)
(* map from the seeds to the address.                                      *)
(***************************************************************************)
\* mutant of PollAddress: the creator is left out of the seeds
PollAddress_NoCreator(creator, poll_id) == <<"poll", "", poll_id>>

PollAddress(creator, poll_id) == <<"poll", creator, poll_id>>

VoterRecordAddress(poll, voter) == <<"voter", poll, voter>>

PollAddresses == {PollAddress(c, id) : c \in Creators, id \in PollIds}

\* the poll addresses given to cast_vote in Spec
SomePollAddresses == {PollAddress(c, id) : c \in Creators, id \in SomePollIds}

(***************************************************************************)
(* State.                                                                  *)
(*   polls         the Poll accounts, by address                           *)
(*   voterRecords  the VoterRecord accounts, by address                    *)
(*   events        the VoteCast events emitted so far (a bag)              *)
(*   clock         Clock::get()?.unix_timestamp                            *)
(*   last          the last transaction executed and what it returned      *)
(*   calls         SpecRace only: the cast_vote transactions issued by     *)
(*                 clients, each with what it returned once executed       *)
(***************************************************************************)
VARIABLES polls, voterRecords, events, clock, last, calls

vars == <<polls, voterRecords, events, clock, last, calls>>

(***************************************************************************)
(* Account data as the `init` constraint leaves it: all bytes zero.        *)
(***************************************************************************)
\* mutant of ZeroPoll: option buffers of 50 bytes
ZeroPoll_Wide ==
    [ poll_id |-> 0,
      creator |-> "",
      question |-> Rep(MAX_QUESTION_LENGTH, 0),
      question_length |-> 0,
      options |-> [i \in 0..(MAX_OPTIONS - 1) |-> Rep(50, 0)],
      option_lengths |-> [i \in 0..(MAX_OPTIONS - 1) |-> 0],
      votes |-> [i \in 0..(MAX_OPTIONS - 1) |-> 0],
      option_count |-> 0,
      created_at |-> 0 ]

ZeroPoll ==
    [ poll_id |-> 0,
      creator |-> "",
      question |-> Rep(MAX_QUESTION_LENGTH, 0),
      question_length |-> 0,
      options |-> [i \in 0..(MAX_OPTIONS - 1) |-> Rep(MAX_OPTION_LENGTH, 0)],
      option_lengths |-> [i \in 0..(MAX_OPTIONS - 1) |-> 0],
      votes |-> [i \in 0..(MAX_OPTIONS - 1) |-> 0],
      option_count |-> 0,
      created_at |-> 0 ]

ZeroVoterRecord ==
    [ has_voted |-> FALSE,
      voted_option |-> 0,
      voted_at |-> 0,
      voter |-> "",
      poll |-> <<>> ]

(***************************************************************************)
(* Sizes in bytes.  An account's data is the 8-byte discriminator followed *)
(* by the fields in declaration order, each at the fixed size of its type. *)
(***************************************************************************)
DISCRIMINATOR_SIZE == 8
U8_SIZE == 1
U16_SIZE == 2
U64_SIZE == 8
I64_SIZE == 8
BOOL_SIZE == 1
PUBKEY_SIZE == 32

\* the bytes the fields of a Poll take
PollPayload(poll) ==
    U64_SIZE                                                      \* poll_id
    + PUBKEY_SIZE                                                 \* creator
    + U8_SIZE * Len(poll.question)                                \* question
    + U16_SIZE                                                    \* question_length
    + U8_SIZE * (Len(poll.options[0]) + Len(poll.options[1])
                 + Len(poll.options[2]) + Len(poll.options[3]))   \* options
    + U8_SIZE * Cardinality(DOMAIN poll.option_lengths)           \* option_lengths
    + U64_SIZE * Cardinality(DOMAIN poll.votes)                   \* votes
    + U8_SIZE                                                     \* option_count
    + I64_SIZE                                                    \* created_at

\* the bytes the fields of a VoterRecord take
VoterRecordPayload(voter_record) ==
    BOOL_SIZE + U8_SIZE + I64_SIZE + PUBKEY_SIZE + PUBKEY_SIZE

\* Poll::LEN, the space the poll account is created with
PollLEN ==
    8 + 8 + 32 + MAX_QUESTION_LENGTH + 2 + (MAX_OPTION_LENGTH * MAX_OPTIONS)
    + MAX_OPTIONS + (8 * MAX_OPTIONS) + 1 + 8

\* VoterRecord::LEN, the space the voter_record account is created with
VoterRecordLEN == 8 + 1 + 1 + 8 + 32 + 32

\* buf[..Len(bytes)].copy_from_slice(bytes)
CopyPrefix(buf, bytes) ==
    [i \in 1..Len(buf) |-> IF i <= Len(bytes) THEN bytes[i] ELSE buf[i]]

\* mutant of InitAllowed: the account is taken as it is when it exists already
InitAllowed_IfNeeded(address, accounts) == TRUE

\* the `init` constraint: create_account at the derived address succeeds only
\* when no account lives there
InitAllowed(address, accounts) == address \notin DOMAIN accounts

(***************************************************************************)
(* create_poll                                                             *)
(***************************************************************************)
\* mutant of QuestionFits: the bound is exclusive
QuestionFits_Strict(question) == Len(question) < MAX_QUESTION_LENGTH

QuestionFits(question) == Len(question) <= MAX_QUESTION_LENGTH

\* mutant of EnoughOptions: one option is enough
EnoughOptions_One(options) == Len(options) >= 1

EnoughOptions(options) == Len(options) >= 2

NotTooManyOptions(options) == Len(options) <= MAX_OPTIONS

OptionsFit(options) ==
    \A k \in 1..Len(options) : Len(options[k]) <= MAX_OPTION_LENGTH

\* mutant of create_poll_check: the options are counted before the question is
\* measured
create_poll_check_Reordered(question, options) ==
    IF ~EnoughOptions(options) THEN "InsufficientOptions"
    ELSE IF ~NotTooManyOptions(options) THEN "TooManyOptions"
    ELSE IF ~QuestionFits(question) THEN "QuestionTooLong"
    ELSE IF ~OptionsFit(options) THEN "OptionTooLong"
    ELSE "Ok"

\* the require! checks of the handler, in order; "Ok" when all pass
create_poll_check(question, options) ==
    IF ~QuestionFits(question) THEN "QuestionTooLong"
    ELSE IF ~EnoughOptions(options) THEN "InsufficientOptions"
    ELSE IF ~NotTooManyOptions(options) THEN "TooManyOptions"
    ELSE IF ~OptionsFit(options) THEN "OptionTooLong"
    ELSE "Ok"

\* the writes of the handler to the fresh account
create_poll(poll, creator, poll_id, question, options, now) ==
    [ poll EXCEPT
        !.poll_id = poll_id,
        !.creator = creator,
        !.created_at = now,
        !.option_count = Len(options),
        !.question = CopyPrefix(@, question),
        !.question_length = Len(question),
        !.options = [i \in 0..(MAX_OPTIONS - 1) |->
                        IF i < Len(options) THEN CopyPrefix(@[i], options[i + 1])
                        ELSE @[i]],
        !.option_lengths = [i \in 0..(MAX_OPTIONS - 1) |->
                        IF i < Len(options) THEN Len(options[i + 1]) ELSE @[i]] ]

(***************************************************************************)
(* Reading the texts back.  A String is the sequence of its bytes.         *)
(* String::from_utf8_lossy keeps every well-formed UTF-8 sequence and      *)
(* replaces every maximal ill-formed one by U+FFFD (EF BF BD).             *)
(***************************************************************************)
ByteAt(bytes, i) == IF i <= Len(bytes) THEN bytes[i] ELSE 0

IsContinuation(byte) == byte \in 128..191

\* the second byte allowed after the first byte of a 3- or 4-byte sequence
SecondByteOk(first, second) ==
    \/ first = 224 /\ second \in 160..191
    \/ first \in 225..236 /\ second \in 128..191
    \/ first = 237 /\ second \in 128..159
    \/ first \in 238..239 /\ second \in 128..191
    \/ first = 240 /\ second \in 144..191
    \/ first \in 241..243 /\ second \in 128..191
    \/ first = 244 /\ second \in 128..143

\* the sequence that starts at byte i: whether it is well-formed, and the
\* number of bytes it takes (of the ill-formed one: the bytes read before the
\* first byte that does not fit)
Utf8Chunk(bytes, i) ==
    LET b0 == bytes[i]
        b1 == ByteAt(bytes, i + 1)
        b2 == ByteAt(bytes, i + 2)
        b3 == ByteAt(bytes, i + 3)
    IN  IF b0 < 128 THEN [valid |-> TRUE, len |-> 1]
        ELSE IF b0 \in 194..223
        THEN IF IsContinuation(b1) THEN [valid |-> TRUE, len |-> 2]
             ELSE [valid |-> FALSE, len |-> 1]
        ELSE IF b0 \in 224..239
        THEN IF ~SecondByteOk(b0, b1) THEN [valid |-> FALSE, len |-> 1]
             ELSE IF ~IsContinuation(b2) THEN [valid |-> FALSE, len |-> 2]
             ELSE [valid |-> TRUE, len |-> 3]
        ELSE IF b0 \in 240..244
        THEN IF ~SecondByteOk(b0, b1) THEN [valid |-> FALSE, len |-> 1]
             ELSE IF ~IsContinuation(b2) THEN [valid |-> FALSE, len |-> 2]
             ELSE IF ~IsContinuation(b3) THEN [valid |-> FALSE, len |-> 3]
             ELSE [valid |-> TRUE, len |-> 4]
        ELSE [valid |-> FALSE, len |-> 1]

\* Byte i starts a sequence unless a sequence that starts at one of the three
\* bytes before it reaches over it.  (Every byte but the first of a sequence is
\* in 80..BF, and the sequence that starts at a byte in 80..BF is that byte
\* alone, so only a sequence that does start at j can reach over i.)
IsChunkStart(bytes, i) ==
    ~\E j \in 1..(i - 1) : j >= i - 3 /\ j + Utf8Chunk(bytes, j).len > i

\* what the sequences that start at the bytes lo..hi are turned into, in order
RECURSIVE LossyRange(_, _, _)
LossyRange(bytes, lo, hi) ==
    IF lo > hi THEN <<>>
    ELSE IF lo = hi
    THEN IF ~IsChunkStart(bytes, lo) THEN <<>>
         ELSE IF Utf8Chunk(bytes, lo).valid
         THEN SubSeq(bytes, lo, lo + Utf8Chunk(bytes, lo).len - 1)
         ELSE <<239, 191, 189>>
    ELSE LossyRange(bytes, lo, (lo + hi) \div 2)
         \o LossyRange(bytes, (lo + hi) \div 2 + 1, hi)

from_utf8_lossy(bytes) == LossyRange(bytes, 1, Len(bytes))

\* Option<String>
None == [some |-> FALSE]
Some(value) == [some |-> TRUE, value |-> value]

\* mutant of get_question: the whole buffer is read
get_question_WholeBuffer(poll) == from_utf8_lossy(poll.question)

get_question(poll) ==
    from_utf8_lossy(SubSeq(poll.question, 1, poll.question_length))

get_option(poll, index) ==
    IF index >= poll.option_count THEN None
    ELSE Some(from_utf8_lossy(
            SubSeq(poll.options[index], 1, poll.option_lengths[index])))

RECURSIVE AllOptionsFrom(_, _)
AllOptionsFrom(poll, i) ==
    IF i >= poll.option_count THEN <<>>
    ELSE (IF get_option(poll, i).some THEN <<get_option(poll, i).value>> ELSE <<>>)
         \o AllOptionsFrom(poll, i + 1)

get_all_options(poll) == AllOptionsFrom(poll, 0)

\* nothing is being returned to a client
NoCall == [op |-> "None", result |-> "None"]

\* the outcome of the create_poll transaction: the account constraints of
\* CreatePoll first, then the handler
CreatePollResult(creator, poll_id, question, options) ==
    IF ~InitAllowed(PollAddress(creator, poll_id), polls) THEN "AccountAlreadyInUse"
    ELSE create_poll_check(question, options)

\* the accounts after the create_poll transaction
CreatePollEffect(creator, poll_id, question, options) ==
    polls' = IF CreatePollResult(creator, poll_id, question, options) = "Ok"
             THEN (PollAddress(creator, poll_id) :>
                     create_poll(ZeroPoll, creator, poll_id, question, options, clock))
                  @@ polls
             ELSE polls

CreatePoll(creator, poll_id, question, options, duration) ==
    /\ last = NoCall
    /\ CreatePollResult(creator, poll_id, question, options) = "Ok"
            => Cardinality(DOMAIN polls) < MaxPolls
    /\ CreatePollEffect(creator, poll_id, question, options)
    /\ last' = [ op |-> "CreatePoll", creator |-> creator, poll_id |-> poll_id,
                 question |-> question, options |-> options, duration |-> duration,
                 result |-> CreatePollResult(creator, poll_id, question, options) ]
    /\ UNCHANGED <<voterRecords, events, clock, calls>>

(***************************************************************************)
(* cast_vote                                                               *)
(***************************************************************************)
\* mutant of OptionInRange: every slot of the array is accepted
OptionInRange_Slots(option_index, poll) == option_index < MAX_OPTIONS

\* mutant of OptionInRange: the bound is off by one
OptionInRange_OffByOne(option_index, poll) == option_index <= poll.option_count

\* (option_index as usize) < poll.option_count as usize
OptionInRange(option_index, poll) == option_index < poll.option_count

\* mutant of cast_vote_check: a poll is closed once time has passed since its
\* creation
cast_vote_check_Closing(poll, voter_record, option_index) ==
    IF clock > poll.created_at THEN "InvalidOption"
    ELSE IF ~OptionInRange(option_index, poll) THEN "InvalidOption"
    ELSE IF voter_record.has_voted THEN "AlreadyVoted"
    ELSE "Ok"

\* the require! checks of the handler, in order; "Ok" when all pass
cast_vote_check(poll, voter_record, option_index) ==
    IF ~OptionInRange(option_index, poll) THEN "InvalidOption"
    ELSE IF voter_record.has_voted THEN "AlreadyVoted"
    ELSE "Ok"

\* mutant of IncrementVotes: the counter is raised by 2
IncrementVotes_Double(votes, option_index) ==
    [votes EXCEPT ![option_index] = @ + 2]

\* mutant of IncrementVotes: the counter is written from a stale read of 0
IncrementVotes_Stale(votes, option_index) ==
    [votes EXCEPT ![option_index] = 1]

\* poll.votes[option_index as usize] += 1
IncrementVotes(votes, option_index) ==
    [votes EXCEPT ![option_index] = @ + 1]

\* mutant of cast_vote_poll: the counter of the next slot is raised as well
cast_vote_poll_Spill(poll, option_index) ==
    [poll EXCEPT !.votes = [IncrementVotes(@, option_index)
                                EXCEPT ![(option_index + 1) % MAX_OPTIONS] = @ + 1]]

\* mutant of cast_vote_poll: the tally is not written
cast_vote_poll_Dropped(poll, option_index) == poll

\* the handler's write to the Poll account
cast_vote_poll(poll, option_index) ==
    [poll EXCEPT !.votes = IncrementVotes(@, option_index)]

\* mutant of cast_vote_record: the voter field is left as init made it
cast_vote_record_NoVoter(voter_record, poll_key, voter, option_index, now) ==
    [ voter_record EXCEPT
        !.has_voted = TRUE,
        !.voted_option = option_index,
        !.voted_at = now,
        !.poll = poll_key ]

\* the handler's writes to the fresh VoterRecord account
cast_vote_record(voter_record, poll_key, voter, option_index, now) ==
    [ voter_record EXCEPT
        !.has_voted = TRUE,
        !.voted_option = option_index,
        !.voted_at = now,
        !.voter = voter,
        !.poll = poll_key ]

\* mutant of VoteCast: the event carries the time the poll was set up at
VoteCast_Stale(poll_key, voter, option_index, now) ==
    [ poll |-> poll_key, voter |-> voter, option_index |-> option_index,
      timestamp |-> polls[poll_key].created_at ]

\* the event the handler emits
VoteCast(poll_key, voter, option_index, now) ==
    [ poll |-> poll_key, voter |-> voter, option_index |-> option_index,
      timestamp |-> now ]

\* mutant of CastVoteResult: the voter_record account is taken as it is when
\* it exists already
CastVoteResult_Revote(poll_key, voter, option_index) ==
    IF poll_key \notin DOMAIN polls THEN "AccountNotInitialized"
    ELSE cast_vote_check(polls[poll_key], ZeroVoterRecord, option_index)

\* the outcome of the cast_vote transaction: the account constraints of
\* CastVote in the order of its fields, then the handler
CastVoteResult(poll_key, voter, option_index) ==
    IF poll_key \notin DOMAIN polls THEN "AccountNotInitialized"
    ELSE IF ~InitAllowed(VoterRecordAddress(poll_key, voter), voterRecords)
         THEN "AccountAlreadyInUse"
    ELSE cast_vote_check(polls[poll_key], ZeroVoterRecord, option_index)

\* the accounts and the event log after the cast_vote transaction
CastVoteEffect(poll_key, voter, option_index) ==
    IF CastVoteResult(poll_key, voter, option_index) = "Ok"
    THEN /\ polls' = [polls EXCEPT ![poll_key] = cast_vote_poll(@, option_index)]
         /\ voterRecords' = (VoterRecordAddress(poll_key, voter) :>
                cast_vote_record(ZeroVoterRecord, poll_key, voter, option_index, clock))
              @@ voterRecords
         /\ events' = events (+) SetToBag({VoteCast(poll_key, voter, option_index, clock)})
    ELSE UNCHANGED <<polls, voterRecords, events>>

CastVote(poll_key, voter, option_index) ==
    /\ last = NoCall
    /\ CastVoteResult(poll_key, voter, option_index) = "Ok"
            => Cardinality(DOMAIN voterRecords) < MaxVotes
    /\ CastVoteEffect(poll_key, voter, option_index)
    /\ last' = [ op |-> "CastVote", poll |-> poll_key, voter |-> voter,
                 option_index |-> option_index,
                 result |-> CastVoteResult(poll_key, voter, option_index) ]
    /\ UNCHANGED <<clock, calls>>

(***************************************************************************)
(* The status of the executed transaction is returned to the client.       *)
(***************************************************************************)
Return ==
    /\ last # NoCall
    /\ last' = NoCall
    /\ UNCHANGED <<polls, voterRecords, events, clock, calls>>

(***************************************************************************)
(* The clock of the host advances between transactions.                    *)
(***************************************************************************)
Tick ==
    /\ last = NoCall
    /\ clock < MaxTime
    /\ clock' = clock + 1
    /\ UNCHANGED <<polls, voterRecords, events, last, calls>>

Init ==
    /\ polls = <<>>
    /\ voterRecords = <<>>
    /\ events = EmptyBag
    /\ clock = 0
    /\ last = NoCall
    /\ calls = <<>>

Next ==
    \/ \E creator \in Creators, poll_id \in SomePollIds, question \in SomeQuestions,
          options \in SomeOptionLists, duration \in Durations :
            CreatePoll(creator, poll_id, question, options, duration)
    \/ \E poll_key \in SomePollAddresses, voter \in Signers,
          option_index \in OptionIndexes :
            CastVote(poll_key, voter, option_index)
    \/ Return
    \/ Tick

Spec == Init /\ [][Next]_vars

\* create_poll alone, over every question and option list of the inputs
NextCreate ==
    \/ \E creator \in Creators, poll_id \in PollIds, question \in Questions,
          options \in OptionLists, duration \in Durations :
            CreatePoll(creator, poll_id, question, options, duration)
    \/ Return
    \/ Tick

SpecCreate == Init /\ [][NextCreate]_vars

(***************************************************************************)
(* Concurrent clients.  Clients issue cast_vote transactions for a poll    *)
(* that exists; the runtime executes the issued transactions one at a      *)
(* time, in any order, each as a whole (transactions that write the same   *)
(* account are serialised by the runtime's account locks).                 *)
(***************************************************************************)
RaceVoters == {"A", "B", "C"}
RaceOptionIndexes == {1, 2}

IssueCall(poll_key, voter, option_index) ==
    /\ last = NoCall
    /\ Len(calls) < MaxCalls
    /\ poll_key \in DOMAIN polls
    /\ calls' = Append(calls, [ poll |-> poll_key, voter |-> voter,
                                option_index |-> option_index, result |-> "Pending" ])
    /\ UNCHANGED <<polls, voterRecords, events, clock, last>>

ExecuteCall(k) ==
    /\ last = NoCall
    /\ calls[k].result = "Pending"
    /\ CastVoteEffect(calls[k].poll, calls[k].voter, calls[k].option_index)
    /\ calls' = [calls EXCEPT ![k].result =
                    CastVoteResult(calls[k].poll, calls[k].voter, calls[k].option_index)]
    /\ UNCHANGED <<clock, last>>

NextRace ==
    \/ \E options \in {<<OYes, ONo>>, <<OMax, <<>>, ONo, OYes>>} :
            CreatePoll("A", 1, QMax, options, 0)
    \/ Return
    \/ \E voter \in RaceVoters, option_index \in RaceOptionIndexes :
            IssueCall(PollAddress("A", 1), voter, option_index)
    \/ \E k \in 1..Len(calls) : ExecuteCall(k)
    \/ Tick

SpecRace == Init /\ [][NextRace]_vars

(***************************************************************************)
(* create_poll over texts of every shape: empty, ASCII, of two and three   *)
(* bytes per character, and of the largest length.                         *)
(***************************************************************************)
QEmpty == <<>>
\* "Café?"
QAccent == <<67, 97, 102, 195, 169, 63>>
CodecQuestions == {QEmpty, QAccent, QMax}

\* "Sí" and "€"
OAccent == <<83, 195, 173>>
OEuro == <<226, 130, 172>>
CodecOptionLists ==
    { <<OYes, ONo>>,
      <<OAccent, <<>>, OEuro>>,
      <<OMax, <<>>, ONo, OYes>> }

NextCodec ==
    \/ \E creator \in Creators, poll_id \in SomePollIds, question \in CodecQuestions,
          options \in CodecOptionLists, duration \in Durations :
            CreatePoll(creator, poll_id, question, options, duration)
    \/ Return
    \/ Tick

SpecCodec == Init /\ [][NextCodec]_vars

(***************************************************************************)
(* Properties.                                                             *)
(***************************************************************************)
SumVotes(poll) == poll.votes[0] + poll.votes[1] + poll.votes[2] + poll.votes[3]

\* the VoterRecord accounts whose fields name the poll and the voter
RecordsFor(poll_key, voter) ==
    {a \in DOMAIN voterRecords :
        voterRecords[a].poll = poll_key /\ voterRecords[a].voter = voter}

\* the VoterRecord accounts whose poll field names the poll
RecordsOfPoll(poll_key) ==
    {a \in DOMAIN voterRecords : voterRecords[a].poll = poll_key}

AllVoters == Signers \cup RaceVoters

\* the step executes a cast_vote / create_poll transaction, whose arguments and
\* status are in last'
IsCastVote == last = NoCall /\ last'.op = "CastVote"
IsCreatePoll == last = NoCall /\ last'.op = "CreatePoll"

\* C1: in every reachable state at most one VoterRecord names a given
\* (poll, voter) pair, and the sum of a poll's tallies is at most the number of
\* voters that have a VoterRecord for it (a voter contributes at most 1).
C1_OneRecordPerVoter ==
    /\ \A poll_key \in PollAddresses, voter \in AllVoters :
            Cardinality(RecordsFor(poll_key, voter)) <= 1
    /\ \A poll_key \in DOMAIN polls :
            SumVotes(polls[poll_key]) <=
                Cardinality({voter \in AllVoters : RecordsFor(poll_key, voter) # {}})

\* a voter that has a VoterRecord for a poll has just tried to vote on it again
C1_Witness ==
    /\ last.op = "CastVote"
    /\ last.result # "Ok"
    /\ RecordsFor(last.poll, last.voter) # {}
    /\ SumVotes(polls[last.poll]) = 1

\* C2 (the claim as stated): on a poll that exists, with an option index in
\* range, the call of a voter without a VoterRecord succeeds and raises the
\* tally of the option by 1 (to 1 on a fresh poll), and the call of a voter
\* with a VoterRecord fails with AlreadyVoted and changes no tally and no
\* VoterRecord.
C2_SecondVoteAlreadyVoted ==
    [][ ( /\ IsCastVote
          /\ last'.poll \in DOMAIN polls
          /\ last'.option_index < polls[last'.poll].option_count )
        => IF RecordsFor(last'.poll, last'.voter) = {}
           THEN /\ last'.result = "Ok"
                /\ polls'[last'.poll].votes[last'.option_index] =
                        polls[last'.poll].votes[last'.option_index] + 1
           ELSE /\ last'.result = "AlreadyVoted"
                /\ polls' = polls
                /\ voterRecords' = voterRecords ]_vars

\* C3: in every reachable state, each counter of each poll equals the number of
\* VoterRecords of that poll whose voted_option is that slot.
C3_TallyMatchesRecords ==
    \A poll_key \in DOMAIN polls : \A i \in 0..(MAX_OPTIONS - 1) :
        polls[poll_key].votes[i] =
            Cardinality({a \in RecordsOfPoll(poll_key) : voterRecords[a].voted_option = i})

\* a poll with two counted votes and their two records
C3_Witness ==
    \E poll_key \in DOMAIN polls :
        /\ SumVotes(polls[poll_key]) = 2
        /\ Cardinality(RecordsOfPoll(poll_key)) = 2

\* the calls issued for a poll
CallsOn(poll_key) == {k \in 1..Len(calls) : calls[k].poll = poll_key}

\* C4: when every call issued for a poll has been executed, the calls came
\* from pairwise distinct voters and all named the same option in range, then
\* whatever the order of execution every call returned Ok, the tally of the
\* option equals the number of calls and so does the number of VoterRecords of
\* the poll.
C4_ConcurrentDistinctVoters ==
    \A poll_key \in DOMAIN polls : \A i \in 0..(MAX_OPTIONS - 1) :
        ( /\ CallsOn(poll_key) # {}
          /\ i < polls[poll_key].option_count
          /\ \A k \in CallsOn(poll_key) :
                calls[k].option_index = i /\ calls[k].result # "Pending"
          /\ \A j, k \in CallsOn(poll_key) : j # k => calls[j].voter # calls[k].voter )
        => /\ \A k \in CallsOn(poll_key) : calls[k].result = "Ok"
           /\ polls[poll_key].votes[i] = Cardinality(CallsOn(poll_key))
           /\ Cardinality(RecordsOfPoll(poll_key)) = Cardinality(CallsOn(poll_key))

\* three voters have voted for the same option, the calls executed out of the
\* order of issue
C4_Witness ==
    \E poll_key \in DOMAIN polls :
        /\ Cardinality(CallsOn(poll_key)) = 3
        /\ \A k \in CallsOn(poll_key) : calls[k].option_index = 1 /\ calls[k].result = "Ok"
        /\ polls[poll_key].votes[1] = 3
        /\ voterRecords[VoterRecordAddress(poll_key, calls[1].voter)].voted_at >
                voterRecords[VoterRecordAddress(poll_key, calls[3].voter)].voted_at

\* C5 (the claim as stated): when exactly two calls were issued for a (poll,
\* voter) pair, both with an option in range, and both have been executed, one
\* returned Ok and the other AlreadyVoted, the poll's tallies rose by exactly 1
\* for that voter and the one VoterRecord holds the option of the call that
\* returned Ok.
C5_RaceOneWinsOtherAlreadyVoted ==
    \A j, k \in 1..Len(calls) :
        ( /\ j # k
          /\ calls[j].poll = calls[k].poll
          /\ calls[j].voter = calls[k].voter
          /\ \A m \in 1..Len(calls) :
                (calls[m].poll = calls[j].poll /\ calls[m].voter = calls[j].voter)
                    => m \in {j, k}
          /\ calls[j].result # "Pending" /\ calls[k].result # "Pending"
          /\ calls[j].option_index < polls[calls[j].poll].option_count
          /\ calls[k].option_index < polls[calls[k].poll].option_count )
        => /\ {calls[j].result, calls[k].result} = {"Ok", "AlreadyVoted"}
           /\ Cardinality(RecordsFor(calls[j].poll, calls[j].voter)) = 1
           /\ \A a \in RecordsFor(calls[j].poll, calls[j].voter) :
                 voterRecords[a].voted_option =
                    (IF calls[j].result = "Ok" THEN calls[j] ELSE calls[k]).option_index

\* after a cast_vote that returned InvalidOption, a cast_vote of the same voter
\* on the same poll with any index in range would succeed
C6_VoteNotConsumed ==
    (last.op = "CastVote" /\ last.result = "InvalidOption")
        => \A i \in OptionIndexes :
                i < polls[last.poll].option_count
                    => CastVoteResult(last.poll, last.voter, i) = "Ok"

\* C6: a cast_vote on an existing poll by a voter without a VoterRecord, with
\* option_index >= option_count (option_index = option_count included), returns
\* InvalidOption, changes no tally and creates no VoterRecord, and the voter can
\* still vote: a cast_vote with an index in range would succeed afterwards.
C6_InvalidOptionRejected ==
    [][ ( /\ IsCastVote
          /\ last'.poll \in DOMAIN polls
          /\ RecordsFor(last'.poll, last'.voter) = {}
          /\ last'.option_index >= polls[last'.poll].option_count )
        => /\ last'.result = "InvalidOption"
           /\ polls' = polls
           /\ voterRecords' = voterRecords
           /\ C6_VoteNotConsumed' ]_vars

\* a cast_vote with option_index = option_count on a poll of two options has
\* returned InvalidOption, and the poll has a vote of another voter
C6_Witness ==
    /\ last.op = "CastVote"
    /\ last.result = "InvalidOption"
    /\ last.option_index = polls[last.poll].option_count
    /\ polls[last.poll].option_count = 2
    /\ SumVotes(polls[last.poll]) = 1
    /\ RecordsFor(last.poll, last.voter) = {}

\* the Poll accounts whose fields name the creator and the poll_id
PollsOf(creator, poll_id) ==
    {a \in DOMAIN polls : polls[a].creator = creator /\ polls[a].poll_id = poll_id}

\* C7: a create_poll by a creator with a poll_id for which that creator has a
\* Poll is rejected by the store (the address is in use: DuplicatePoll) and
\* leaves every Poll as it was; the store rejects no other create_poll; and a
\* valid create_poll for a (creator, poll_id) pair without a Poll, whether the
\* poll_id or the creator is used by another Poll or not, adds a Poll and
\* leaves the others as they were.
C7_DuplicatePoll ==
    [][ IsCreatePoll =>
        /\ PollsOf(last'.creator, last'.poll_id) # {}
                => (last'.result = "AccountAlreadyInUse" /\ polls' = polls)
        /\ last'.result = "AccountAlreadyInUse"
                => PollsOf(last'.creator, last'.poll_id) # {}
        /\ ( /\ PollsOf(last'.creator, last'.poll_id) = {}
             /\ create_poll_check(last'.question, last'.options) = "Ok" )
                => /\ last'.result = "Ok"
                   /\ Cardinality(DOMAIN polls') = Cardinality(DOMAIN polls) + 1
                   /\ \A a \in DOMAIN polls : a \in DOMAIN polls' /\ polls'[a] = polls[a] ]_vars

\* creator A has a Poll with the poll_id of a Poll of creator B, and a second
\* create_poll of A with that poll_id has been rejected
C7_Witness ==
    /\ last.op = "CreatePoll"
    /\ last.result = "AccountAlreadyInUse"
    /\ create_poll_check(last.question, last.options) = "Ok"
    /\ \E a, b \in DOMAIN polls :
            /\ polls[a].creator = last.creator /\ polls[a].poll_id = last.poll_id
            /\ polls[b].creator # last.creator /\ polls[b].poll_id = last.poll_id

\* the error kind of the first failing check, in the order of the claim
C8_FirstFailing(question, options) ==
    IF Len(question) > 200 THEN "QuestionTooLong"
    ELSE IF Len(options) < 2 THEN "InsufficientOptions"
    ELSE IF Len(options) > 4 THEN "TooManyOptions"
    ELSE IF \E k \in 1..Len(options) : Len(options[k]) > 30 THEN "OptionTooLong"
    ELSE "Ok"

\* C8: a create_poll at an address not in use returns the error kind of the
\* first failing check in the order question length, number of options (too
\* few, too many), option lengths; and after a create_poll that returned one of
\* these error kinds no Poll is at the derived address and no Poll has changed.
C8_ValidationOrder ==
    [][ IsCreatePoll =>
        /\ PollAddress(last'.creator, last'.poll_id) \notin DOMAIN polls
                => last'.result = C8_FirstFailing(last'.question, last'.options)
        /\ last'.result \in {"QuestionTooLong", "InsufficientOptions",
                              "TooManyOptions", "OptionTooLong"}
                => /\ PollAddress(last'.creator, last'.poll_id) \notin DOMAIN polls'
                   /\ polls' = polls ]_vars

\* a create_poll with a question of 201 bytes and a single option has returned
\* QuestionTooLong, and no Poll is at its address
C8_Witness ==
    /\ last.op = "CreatePoll"
    /\ Len(last.question) = 201
    /\ Len(last.options) = 1
    /\ last.result = "QuestionTooLong"
    /\ PollAddress(last.creator, last.poll_id) \notin DOMAIN polls

\* C9: a create_poll at an address not in use succeeds exactly when the
\* question has at most 200 bytes, there are 2 to 4 options and every option
\* has at most 30 bytes; the new Poll then has option_count = len(options) and
\* its four counters at 0.
C9_CreateBoundaries ==
    [][ ( /\ IsCreatePoll
          /\ PollAddress(last'.creator, last'.poll_id) \notin DOMAIN polls )
        => /\ last'.result = "Ok"
                <=> ( /\ Len(last'.question) <= 200
                      /\ Len(last'.options) >= 2
                      /\ Len(last'.options) <= 4
                      /\ \A k \in 1..Len(last'.options) : Len(last'.options[k]) <= 30 )
           /\ last'.result = "Ok"
                => /\ PollAddress(last'.creator, last'.poll_id) \in DOMAIN polls'
                   /\ polls'[PollAddress(last'.creator, last'.poll_id)].option_count
                        = Len(last'.options)
                   /\ \A i \in 0..3 :
                        polls'[PollAddress(last'.creator, last'.poll_id)].votes[i] = 0 ]_vars

\* a create_poll with a question of 200 bytes and 4 options, one of 30 bytes
\* and one empty, has succeeded
C9_Witness ==
    /\ last.op = "CreatePoll"
    /\ last.result = "Ok"
    /\ Len(last.question) = 200
    /\ Len(last.options) = 4
    /\ \E k \in 1..4 : Len(last.options[k]) = 30
    /\ polls[PollAddress(last.creator, last.poll_id)].option_count = 4

\* C10: a cast_vote succeeds if and only if the poll exists, the option index
\* is below the poll's option_count and no VoterRecord names the (poll, voter)
\* pair; neither the duration given to create_poll, nor the time passed, nor
\* the votes of other voters, nor the voter's votes on other polls matter.
C10_VoteSucceedsIff ==
    [][ IsCastVote =>
        ( last'.result = "Ok"
            <=> ( /\ last'.poll \in DOMAIN polls
                  /\ last'.option_index < polls[last'.poll].option_count
                  /\ RecordsFor(last'.poll, last'.voter) = {} ) ) ]_vars

\* a voter with a vote on one poll has voted on another poll, after the time
\* of creation of that poll
C10_Witness ==
    /\ last.op = "CastVote"
    /\ last.result = "Ok"
    /\ clock > polls[last.poll].created_at
    /\ \E other \in DOMAIN polls :
            other # last.poll /\ RecordsFor(other, last.voter) # {}

\* C11: after a successful create_poll(question, options) the Poll reads back
\* as written: get_question is the question, get_option(i) is Some(options[i])
\* for i < len(options) and None from option_count on, and get_all_options is
\* the options in their order, option_count of them; for empty texts, texts of
\* several bytes per character and texts of 200 / 30 bytes alike.
C11_RoundTrip ==
    (last.op = "CreatePoll" /\ last.result = "Ok")
        => LET poll == polls[PollAddress(last.creator, last.poll_id)]
           IN  /\ get_question(poll) = last.question
               /\ \A i \in 0..(Len(last.options) - 1) :
                     get_option(poll, i) = Some(last.options[i + 1])
               /\ \A i \in 0..(MAX_OPTIONS + 1) :
                     i >= poll.option_count => get_option(poll, i) = None
               /\ get_all_options(poll) = last.options
               /\ Len(get_all_options(poll)) = poll.option_count

\* a Poll with a question of 200 bytes, an option of 30 bytes and an empty
\* option has been created and read back
C11_Witness ==
    /\ last.op = "CreatePoll"
    /\ last.result = "Ok"
    /\ Len(last.question) = 200
    /\ \E k \in 1..Len(last.options) : Len(last.options[k]) = 30
    /\ \E k \in 1..Len(last.options) : last.options[k] = <<>>
    /\ get_question(polls[PollAddress(last.creator, last.poll_id)]) = last.question
    /\ \E a \in DOMAIN polls : get_all_options(polls[a]) = <<OAccent, <<>>, OEuro>>

\* the VoteCast event whose fields are those of the VoterRecord
EventOf(voter_record) ==
    [ poll |-> voter_record.poll, voter |-> voter_record.voter,
      option_index |-> voter_record.voted_option,
      timestamp |-> voter_record.voted_at ]

\* every VoterRecord has exactly one event, every event has its VoterRecord
EventsMatchRecords ==
    /\ \A a \in DOMAIN voterRecords :
          CopiesIn(EventOf(voterRecords[a]), events) = 1
    /\ \A e \in BagToSet(events) :
          \E a \in DOMAIN voterRecords : EventOf(voterRecords[a]) = e
    /\ BagCardinality(events) = Cardinality(DOMAIN voterRecords)

\* C12: a successful cast_vote emits exactly one VoteCast, whose (poll, voter,
\* option_index, timestamp) are the fields of the VoterRecord it wrote; a
\* failed cast_vote, a create_poll and every other step emit nothing; so the
\* events and the VoterRecords are in one-to-one correspondence.
C12_OneEventPerVote ==
    [][ /\ (IsCastVote /\ last'.result = "Ok")
            => LET a == VoterRecordAddress(last'.poll, last'.voter)
               IN  /\ a \notin DOMAIN voterRecords
                   /\ a \in DOMAIN voterRecords'
                   /\ events' = events (+) SetToBag({EventOf(voterRecords'[a])})
                   /\ EventOf(voterRecords'[a]).poll = last'.poll
                   /\ EventOf(voterRecords'[a]).voter = last'.voter
                   /\ EventOf(voterRecords'[a]).option_index = last'.option_index
                   /\ EventOf(voterRecords'[a]).timestamp = clock
        /\ ~(IsCastVote /\ last'.result = "Ok") => events' = events
        /\ EventsMatchRecords' ]_vars

\* two votes cast at different times have been recorded and notified, and a
\* cast_vote has just failed
C12_Witness ==
    /\ last.op = "CastVote"
    /\ last.result # "Ok"
    /\ BagCardinality(events) = 2
    /\ \E e1, e2 \in BagToSet(events) : e1.timestamp # e2.timestamp
    /\ \E a \in DOMAIN voterRecords :
          voterRecords[a].voted_at > polls[voterRecords[a].poll].created_at

\* C13: a VoterRecord, once it exists, exists in every later state with the
\* same fields: no step removes or rewrites one.
C13_RecordsPermanent ==
    [][ \A a \in DOMAIN voterRecords :
            a \in DOMAIN voterRecords' /\ voterRecords'[a] = voterRecords[a] ]_vars

\* a voter who has a record has just tried, at a later time, to vote for
\* another option
C13_Witness ==
    /\ last.op = "CastVote"
    /\ last.result # "Ok"
    /\ \E a \in DOMAIN voterRecords :
          /\ voterRecords[a].poll = last.poll
          /\ voterRecords[a].voter = last.voter
          /\ voterRecords[a].voted_option # last.option_index
          /\ last.option_index < polls[last.poll].option_count
          /\ voterRecords[a].voted_at < clock

\* C14: the fields of every Poll take 407 bytes and those of every
\* VoterRecord 74 bytes; Poll::LEN is 415 and VoterRecord::LEN is 82, each
\* the payload plus the 8-byte header.
C14_Sizes ==
    /\ \A a \in DOMAIN polls :
          /\ PollPayload(polls[a]) = 407
          /\ PollLEN = PollPayload(polls[a]) + DISCRIMINATOR_SIZE
    /\ \A a \in DOMAIN voterRecords :
          /\ VoterRecordPayload(voterRecords[a]) = 74
          /\ VoterRecordLEN = VoterRecordPayload(voterRecords[a]) + DISCRIMINATOR_SIZE
    /\ PollLEN = 415
    /\ VoterRecordLEN = 82

\* a Poll of four options, one of them of the largest length, and a
\* VoterRecord on it are stored
C14_Witness ==
    \E a \in DOMAIN voterRecords :
        /\ voterRecords[a].poll \in DOMAIN polls
        /\ polls[voterRecords[a].poll].option_count = MAX_OPTIONS
        /\ polls[voterRecords[a].poll].question_length = MAX_QUESTION_LENGTH
        /\ \E i \in 0..(MAX_OPTIONS - 1) :
              polls[voterRecords[a].poll].option_lengths[i] = MAX_OPTION_LENGTH

\* C15 (the claim as stated): cast_vote checks the option index before the
\* creation of the VoterRecord is attempted: the rejection for a record that
\* exists already comes only to a call whose option index is in range, and a
\* call with an option index out of range by a voter who has a VoterRecord on
\* the poll is rejected with InvalidOption.
C15_OptionBoundBeforeRecord ==
    [][ (IsCastVote /\ last'.poll \in DOMAIN polls)
        => /\ (last'.result \in {"AlreadyVoted", "AccountAlreadyInUse"})
                => last'.option_index < polls[last'.poll].option_count
           /\ ( /\ last'.option_index >= polls[last'.poll].option_count
                /\ RecordsFor(last'.poll, last'.voter) # {} )
                => last'.result = "InvalidOption" ]_vars

\* C16: the counters of a Poll are 0 when it is created; in every step a
\* counter of an existing Poll stays or goes up by exactly 1, and it goes up
\* only in a successful cast_vote on that poll for that slot, so create_poll
\* and failed transactions change no counter.
C16_CountersMonotone ==
    [][ /\ \A a \in DOMAIN polls :
            /\ a \in DOMAIN polls'
            /\ \A i \in 0..(MAX_OPTIONS - 1) :
                  /\ \/ polls'[a].votes[i] = polls[a].votes[i]
                     \/ polls'[a].votes[i] = polls[a].votes[i] + 1
                  /\ polls'[a].votes[i] # polls[a].votes[i]
                        => /\ IsCastVote
                           /\ last'.result = "Ok"
                           /\ last'.poll = a
                           /\ last'.option_index = i
        /\ \A a \in DOMAIN polls' \ DOMAIN polls :
            \A i \in 0..(MAX_OPTIONS - 1) : polls'[a].votes[i] = 0 ]_vars

\* a counter has just gone from 1 to 2, on one of two polls
C16_Witness ==
    /\ last.op = "CastVote"
    /\ last.result = "Ok"
    /\ polls[last.poll].votes[last.option_index] = 2
    /\ Cardinality(DOMAIN polls) = 2

\* C17: a successful cast_vote changes, of the Polls, only votes[option_index]
\* of its poll, and adds the VoterRecord of (poll, voter) and nothing else; a
\* successful create_poll adds its Poll and changes no Poll and no VoterRecord
\* that exists.
C17_Frame ==
    [][ /\ (IsCastVote /\ last'.result = "Ok")
            => LET p == last'.poll
                   i == last'.option_index
                   r == VoterRecordAddress(last'.poll, last'.voter)
               IN  /\ DOMAIN polls' = DOMAIN polls
                   /\ \A a \in DOMAIN polls \ {p} : polls'[a] = polls[a]
                   /\ [polls'[p] EXCEPT !.votes[i] = polls[p].votes[i]] = polls[p]
                   /\ r \notin DOMAIN voterRecords
                   /\ DOMAIN voterRecords' = DOMAIN voterRecords \cup {r}
                   /\ \A a \in DOMAIN voterRecords :
                         voterRecords'[a] = voterRecords[a]
        /\ (IsCreatePoll /\ last'.result = "Ok")
            => LET p == PollAddress(last'.creator, last'.poll_id)
               IN  /\ p \notin DOMAIN polls
                   /\ DOMAIN polls' = DOMAIN polls \cup {p}
                   /\ \A a \in DOMAIN polls : polls'[a] = polls[a]
                   /\ voterRecords' = voterRecords ]_vars

\* a vote has just been cast on one poll while another poll with a vote of
\* its own is stored
C17_Witness ==
    /\ last.op = "CastVote"
    /\ last.result = "Ok"
    /\ \E a \in DOMAIN voterRecords :
          /\ voterRecords[a].poll # last.poll
          /\ SumVotes(polls[voterRecords[a].poll]) = 1
    /\ SumVotes(polls[last.poll]) = 1

\* C18: every stored Poll has 2 to 4 options, a question of at most 200
\* bytes, and options of at most 30 bytes each.
C18_PollWellFormed ==
    \A a \in DOMAIN polls :
        /\ polls[a].option_count >= 2
        /\ polls[a].option_count <= 4
        /\ polls[a].question_length <= 200
        /\ \A i \in 0..(MAX_OPTIONS - 1) :
              i < polls[a].option_count => polls[a].option_lengths[i] <= 30

\* a Poll at every limit (4 options, 200 and 30 bytes) and a Poll of 2
\* options are stored, and a create_poll has just been refused for its texts
C18_Witness ==
    /\ \E a \in DOMAIN polls :
          /\ polls[a].option_count = 4
          /\ polls[a].question_length = 200
          /\ \E i \in 0..3 : polls[a].option_lengths[i] = 30
    /\ \E a \in DOMAIN polls : polls[a].option_count = 2
    /\ last.op = "CreatePoll"
    /\ last.result \in {"QuestionTooLong", "InsufficientOptions",
                         "TooManyOptions", "OptionTooLong"}

\* C19: every stored VoterRecord has has_voted set, a voted_option below the
\* option_count of its poll, a poll field that names a stored Poll, and poll
\* and voter fields that are the pair its address is derived from.
C19_RecordWellFormed ==
    \A a \in DOMAIN voterRecords :
        /\ voterRecords[a].has_voted = TRUE
        /\ voterRecords[a].poll \in DOMAIN polls
        /\ voterRecords[a].voted_option < polls[voterRecords[a].poll].option_count
        /\ a = VoterRecordAddress(voterRecords[a].poll, voterRecords[a].voter)

\* records of two voters on polls of 2 and of 4 options are stored, one of
\* them for the last slot of its poll
C19_Witness ==
    /\ Cardinality(DOMAIN voterRecords) = 2
    /\ \E a, b \in DOMAIN voterRecords :
          /\ voterRecords[a].voter # voterRecords[b].voter
          /\ polls[voterRecords[a].poll].option_count = 2
          /\ polls[voterRecords[b].poll].option_count = 4
          /\ voterRecords[b].voted_option = 3

\* the votes counted in the slots the poll uses
UsedVotes(poll) ==
    (IF 0 < poll.option_count THEN poll.votes[0] ELSE 0)
    + (IF 1 < poll.option_count THEN poll.votes[1] ELSE 0)
    + (IF 2 < poll.option_count THEN poll.votes[2] ELSE 0)
    + (IF 3 < poll.option_count THEN poll.votes[3] ELSE 0)

\* C20: in every stored Poll the slots from option_count up to 3 have
\* votes = 0 and option_lengths = 0, and the votes of the slots below
\* option_count add up to the number of VoterRecords of the poll.
C20_UnusedSlotsZero ==
    \A a \in DOMAIN polls :
        /\ \A i \in 0..(MAX_OPTIONS - 1) :
              i >= polls[a].option_count
                => polls[a].votes[i] = 0 /\ polls[a].option_lengths[i] = 0
        /\ UsedVotes(polls[a]) = Cardinality(RecordsOfPoll(a))

\* a vote for an unused slot of a poll of 2 options, which holds a vote, has
\* just been refused
C20_Witness ==
    /\ last.op = "CastVote"
    /\ last.result = "InvalidOption"
    /\ last.option_index \in {2, 3}
    /\ polls[last.poll].option_count = 2
    /\ Cardinality(RecordsOfPoll(last.poll)) = 1
    /\ UsedVotes(polls[last.poll]) = 1

====
